---- MODULE Spec2Model ----
(***************************************************************************)
(* Model of filter_planet_by_cats.cpp (mapsme/osm_conflate): the category  *)
(* catalog loader, the tag test, the eligibility decision and the two-pass *)
(* driver of main().                                                       *)
(*                                                                         *)
(* Strings are sequences of one-character strings, indexed from 1; the     *)
(* code's 0-based positions are kept and converted at each access.         *)
(***************************************************************************)
EXTENDS Integers, Sequences, FiniteSets, TLC

VARIABLES
  pc,               \* position of main(): Idle, AssemblingAreas, Scanning, Done, Aborted
  parsingPoints,    \* LoadCategories: local flag
  parts,            \* LoadCategories: the reused vector of fields
  m_categories,     \* AmenityHandler::m_categories (id -> list of TQuery)
  m_category_names, \* AmenityHandler::m_category_names
  m_tree,           \* AmenityHandler::m_tree, the inserted entries in order
  nLines,           \* lines read from the category file so far
  managed,          \* ids of the relations the RelationsManager keeps
  malformed,        \* history: a malformed line has been read
  declared,         \* history: the ClauseSets the well-formed category lines declare
  last,             \* pass 2: what the handler did with the entity apply is at
  sp_s, sp_delimiter, sp_limit, sp_target, sp_pc,   \* one call of SplitTrim
  tt_tags, tt_query, tt_result, tt_pc               \* one call of TestTags

vars == <<pc, parsingPoints, parts, m_categories, m_category_names, m_tree,
          nLines, managed, malformed, declared, last,
          sp_s, sp_delimiter, sp_limit, sp_target, sp_pc,
          tt_tags, tt_query, tt_result, tt_pc>>

pipeVars == <<pc, parsingPoints, parts, m_categories, m_category_names, m_tree,
              nLines, managed, malformed, declared, last>>
splitVars == <<sp_s, sp_delimiter, sp_limit, sp_target, sp_pc>>
tagVars == <<tt_tags, tt_query, tt_result, tt_pc>>

----------------------------------------------------------------------------
(* Bounds of the model *)

MaxLen == 5
MaxLimit == 2
MaxLines == 3

----------------------------------------------------------------------------
(* Small helpers *)

Min2(a, b) == IF a < b THEN a ELSE b

MinOf(S) == CHOOSE x \in S : \A y \in S : x <= y

RECURSIVE SeqsUpTo(_, _)
SeqsUpTo(S, n) ==
  IF n = 0 THEN {<<>>}
  ELSE LET shorter == SeqsUpTo(S, n - 1)
       IN shorter \cup {Append(q, x) : q \in {r \in shorter : Len(r) = n - 1}, x \in S}

----------------------------------------------------------------------------
(* std::string pieces used by SplitTrim *)

NPOS == -1

NUL == "\\0"

IsSpace(c) == c \in {" ", "\t", "\n", "\r", "\f"}

\* s.find(c, start): the first 0-based position >= start holding c, or npos.
Find(s, c, start) ==
  LET hits == {i \in start..(Len(s) - 1) : s[i + 1] = c}
  IN IF hits = {} THEN NPOS ELSE MinOf(hits)

\* s[i] for 0 <= i <= s.length(); s[s.length()] is the terminating '\0'.
CharAt(s, i) == IF i < Len(s) THEN s[i + 1] ELSE NUL

\* s.substr(pos, count), count clamped to the end of the string.
SubStr(s, pos, count) == SubSeq(s, pos + 1, Min2(pos + count, Len(s)))

----------------------------------------------------------------------------
(* AmenityHandler::SplitTrim *)

\* The values an out-of-bounds read of s[SIZE_MAX] can yield to isspace.
OobReads == {"space", "other"}

\* while (start < end && std::isspace(s[start])) start++;
RECURSIVE SkipLeading(_, _, _)
SkipLeading(s, start, end) ==
  IF start < end /\ IsSpace(s[start + 1])
  THEN SkipLeading(s, start + 1, end)
  ELSE start

\* while (tmpend > start && std::isspace(s[tmpend])) tmpend++;
RECURSIVE ScanTrailing(_, _, _)
ScanTrailing(s, start, tmpend) ==
  IF tmpend > start /\ IsSpace(CharAt(s, tmpend))
  THEN ScanTrailing(s, start, tmpend + 1)
  ELSE tmpend

\* One pass of the loop body after `end` is fixed: the token pushed.
\* With end = 0 (only when start = 0), tmpend = end - 1 wraps to SIZE_MAX and
\* s[tmpend] is read out of bounds; g is what that read yields.  A space makes
\* tmpend++ wrap to 0 and the count 1; anything else leaves the count
\* SIZE_MAX - 0 + 1 = 0.
SplitToken(s, start, end, g) ==
  LET st == SkipLeading(s, start, end)
  IN IF end = 0
     THEN IF g = "space" THEN SubStr(s, st, 1) ELSE SubStr(s, st, 0)
     ELSE LET tmpend == ScanTrailing(s, st, end - 1)
          IN SubStr(s, st, tmpend - st + 1)

RECURSIVE SplitLoop(_, _, _, _, _, _)
SplitLoop(s, delimiter, limit, target, start, g) ==
  IF ~(start < Len(s)) THEN target
  ELSE LET f == Find(s, delimiter, start)
           end == IF f = NPOS \/ Len(target) = limit THEN Len(s) ELSE f
       IN SplitLoop(s, delimiter, limit,
                    Append(target, SplitToken(s, start, end, g)), end + 1, g)

SplitTrim(s, delimiter, limit, g) == SplitLoop(s, delimiter, limit, <<>>, 0, g)

\* Whether the call reads s[SIZE_MAX]: the first pass ends at position 0.
SplitTrimOob(s, delimiter, limit) ==
  Len(s) > 0 /\ s[1] = delimiter /\ limit # 0

----------------------------------------------------------------------------
(* AmenityHandler::ParseQuery *)

LineLimit == 3

QueryLimit == 100

\* for (part : parts) { SplitTrim(part, '=', 100, keys); if (keys.size() > 0) q.push_back(keys); }
RECURSIVE ParseParts(_, _, _, _)
ParseParts(qparts, i, q, g) ==
  IF i > Len(qparts) THEN q
  ELSE LET keys == SplitTrim(qparts[i], "=", QueryLimit, g)
       IN ParseParts(qparts, i + 1, IF Len(keys) > 0 THEN Append(q, keys) ELSE q, g)

ParseQuery(query, g) == ParseParts(SplitTrim(query, "|", QueryLimit, g), 1, <<>>, g)

\* Whether ParseQuery(query) makes an out-of-bounds read in one of its SplitTrim calls.
ParseQueryOob(query, g) ==
  \/ SplitTrimOob(query, "|", QueryLimit)
  \/ LET qparts == SplitTrim(query, "|", QueryLimit, g)
     IN \E i \in 1..Len(qparts) : SplitTrimOob(qparts[i], "=", QueryLimit)

----------------------------------------------------------------------------
(* std::stoi, std::stod and osmium::Location(double, double), as called by  *)
(* LoadCategories                                                          *)

Digits == {"0", "1", "2", "3", "4", "5", "6", "7", "8", "9"}

DigitVal(c) ==
  CASE c = "0" -> 0 [] c = "1" -> 1 [] c = "2" -> 2 [] c = "3" -> 3 [] c = "4" -> 4
    [] c = "5" -> 5 [] c = "6" -> 6 [] c = "7" -> 7 [] c = "8" -> 8 [] c = "9" -> 9

RECURSIVE Pow10(_)
Pow10(n) == IF n = 0 THEN 1 ELSE 10 * Pow10(n - 1)

\* The 0-based position after the run of digits starting at i.
RECURSIVE DigitsEnd(_, _)
DigitsEnd(s, i) == IF i < Len(s) /\ s[i + 1] \in Digits THEN DigitsEnd(s, i + 1) ELSE i

\* The value of the digits s[from .. to-1], most significant first.
RECURSIVE DigitsValue(_, _, _)
DigitsValue(s, from, to) ==
  IF from >= to THEN 0 ELSE DigitsValue(s, from, to - 1) * 10 + DigitVal(s[to])

\* std::stoi(s): leading whitespace, an optional sign, then digits; whatever
\* follows the digits is ignored.  ok = FALSE is std::invalid_argument (no
\* digit) or std::out_of_range (here: more than nine digits).
StoI(s) ==
  LET ws == SkipLeading(s, 0, Len(s))
      neg == ws < Len(s) /\ s[ws + 1] = "-"
      d0 == IF ws < Len(s) /\ s[ws + 1] \in {"-", "+"} THEN ws + 1 ELSE ws
      d1 == DigitsEnd(s, d0)
  IN IF d1 = d0 \/ d1 - d0 > 9 THEN [ok |-> FALSE, val |-> 0]
     ELSE [ok |-> TRUE,
           val |-> IF neg THEN 0 - DigitsValue(s, d0, d1) ELSE DigitsValue(s, d0, d1)]

\* static_cast<uint16_t>(int)
ToU16(v) == v % 65536

\* std::stod(s) on decimal text: leading whitespace, an optional sign, digits,
\* an optional '.' and digits.  The value is mant / 10^frac.
StoD(s) ==
  LET ws == SkipLeading(s, 0, Len(s))
      neg == ws < Len(s) /\ s[ws + 1] = "-"
      d0 == IF ws < Len(s) /\ s[ws + 1] \in {"-", "+"} THEN ws + 1 ELSE ws
      d1 == DigitsEnd(s, d0)
      dot == d1 < Len(s) /\ s[d1 + 1] = "."
      f0 == IF dot THEN d1 + 1 ELSE d1
      f1 == IF dot THEN DigitsEnd(s, f0) ELSE d1
      nd == (d1 - d0) + (f1 - f0)
      mag == DigitsValue(s, d0, d1) * Pow10(f1 - f0) + DigitsValue(s, f0, f1)
  IN IF nd = 0 \/ nd > 9 THEN [ok |-> FALSE, mant |-> 0, frac |-> 0]
     ELSE [ok |-> TRUE, mant |-> IF neg THEN 0 - mag ELSE mag, frac |-> f1 - f0]

\* A variant that rounds toward minus infinity.
FloorDiv(a, b) == a \div b

\* C++ integer division, truncating toward zero (b > 0).
TruncDiv(a, b) == IF a >= 0 THEN a \div b ELSE 0 - ((0 - a) \div b)

\* osmium::Location::double_to_fix: round(c * 10^7), halves away from zero.
DoubleToFix(d) ==
  IF d.frac <= 7 THEN d.mant * Pow10(7 - d.frac)
  ELSE LET p == Pow10(d.frac - 7)
           a == IF d.mant >= 0 THEN d.mant ELSE 0 - d.mant
           r == (a + p \div 2) \div p
       IN IF d.mant >= 0 THEN r ELSE 0 - r

----------------------------------------------------------------------------
(* RTree<uint16_t, int32_t, 2, double>: Insert and Search *)

\* m_tree.Insert(coords, coords, cat_id)
TreeInsert(tree, x, y, cat_id) == Append(tree, [x |-> x, y |-> y, cat |-> cat_id])

\* m_tree.Search(min, max, &AppendToVector, &found): the ids of the entries
\* whose box overlaps [min, max], one callback per entry.
RECURSIVE TreeSearch(_, _, _, _)
TreeSearch(tree, min, max, i) ==
  IF i > Len(tree) THEN <<>>
  ELSE LET e == tree[i]
           hit == min[1] <= e.x /\ e.x <= max[1] /\ min[2] <= e.y /\ e.y <= max[2]
       IN (IF hit THEN <<e.cat>> ELSE <<>>) \o TreeSearch(tree, min, max, i + 1)

----------------------------------------------------------------------------
(* AmenityHandler::TestTags and AmenityHandler::IsEligible *)

\* kSearchRadius = 0.0001 through Location::double_to_fix
Radius == 1000

\* for (auto const & pair : query) { /* TODO */ }  return true;
TestTags(tags, query) == TRUE

\* for (cat_id : found) for (query : m_categories[cat_id]) if (TestTags) return true;
\* std::map::operator[] inserts an empty list for an id it does not hold.
RECURSIVE EligibleLoop(_, _, _, _)
EligibleLoop(cats, found, i, tags) ==
  IF i > Len(found) THEN [result |-> FALSE, cats |-> cats]
  ELSE LET id == found[i]
           cats1 == IF id \in DOMAIN cats THEN cats ELSE cats @@ (id :> <<>>)
       IN IF \E k \in 1..Len(cats1[id]) : TestTags(tags, cats1[id][k])
          THEN [result |-> TRUE, cats |-> cats1]
          ELSE EligibleLoop(cats1, found, i + 1, tags)

\* The answer of IsEligible(loc, tags) and m_categories after the call.
IsEligible(cats, tree, loc, tags) ==
  IF Len(tags) = 0 THEN [result |-> FALSE, cats |-> cats]
  ELSE LET min == <<loc[1] - Radius, loc[2] - Radius>>
           max == <<loc[1] + Radius, loc[2] + Radius>>
           found == TreeSearch(tree, min, max, 1)
       IN IF Len(found) = 0 THEN [result |-> FALSE, cats |-> cats]
          ELSE EligibleLoop(cats, found, 1, tags)

----------------------------------------------------------------------------
(* The format of the category file as the specification states it; used    *)
(* only to say what a line declares and whether it is malformed            *)

RECURSIVE RefTrimLeft(_)
RefTrimLeft(s) == IF Len(s) > 0 /\ IsSpace(s[1]) THEN RefTrimLeft(Tail(s)) ELSE s

RECURSIVE RefTrimRight(_)
RefTrimRight(s) ==
  IF Len(s) > 0 /\ IsSpace(s[Len(s)]) THEN RefTrimRight(SubSeq(s, 1, Len(s) - 1)) ELSE s

RefTrim(s) == RefTrimRight(RefTrimLeft(s))

\* The fields of s: cut at each delimiter, at most `limit` fields, the last
\* one being the remainder; each field trimmed.
RECURSIVE RefSplit(_, _, _)
RefSplit(s, delimiter, limit) ==
  LET f == Find(s, delimiter, 0)
  IN IF limit <= 1 \/ f = NPOS THEN <<RefTrim(s)>>
     ELSE <<RefTrim(SubSeq(s, 1, f))>>
          \o RefSplit(SubSeq(s, f + 2, Len(s)), delimiter, limit - 1)

RefIsNumber(field) == Len(field) > 0 /\ \A i \in 1..Len(field) : field[i] \in Digits

RefIsDecimal(field) ==
  /\ \E i \in 1..Len(field) : field[i] \in Digits
  /\ \A i \in 1..Len(field) : field[i] \in Digits \cup {".", "-"}

\* A line that is not `id,name,query` resp. `lon,lat,id`.
MalformedLine(line, inPoints) ==
  LET f == RefSplit(line, ",", 3)
  IN IF inPoints
     THEN Len(line) = 0 \/ Len(f) < 3 \/ ~RefIsDecimal(f[1]) \/ ~RefIsDecimal(f[2])
          \/ ~RefIsNumber(f[3])
     ELSE Len(line) > 0 /\ (Len(f) < 3 \/ ~RefIsNumber(f[1]))

\* The ClauseSet a query text declares: one condition per '|' clause, each
\* <<key>> or <<key, value>>.
RefClauseSet(query) ==
  LET clauses == RefSplit(query, "|", QueryLimit)
  IN [i \in 1..Len(clauses) |-> RefSplit(clauses[i], "=", QueryLimit)]

----------------------------------------------------------------------------
(* AmenityHandler::LoadCategories, one line per step *)

UbReads == {"stale", "empty"}

\* parts[i] after SplitTrim filled np into the reused vector whose slots held
\* `old`: past the new size the read is undefined; u picks what it yields,
\* the string left in the slot by an earlier line or an empty one.
Field(np, old, i, u) ==
  IF i < Len(np) THEN np[i + 1]
  ELSE IF u = "stale" /\ i < Len(old) THEN old[i + 1]
  ELSE <<>>

\* The slots of the vector after target.clear() and the push_backs.
Overlay(np, old) ==
  [i \in 1..(IF Len(np) > Len(old) THEN Len(np) ELSE Len(old)) |->
     IF i <= Len(np) THEN np[i] ELSE old[i]]

\* m_categories[cat_id].push_back(q)
PushQuery(cats, id, q) ==
  IF id \in DOMAIN cats THEN [cats EXCEPT ![id] = Append(@, q)]
  ELSE cats @@ (id :> <<q>>)

\* m_category_names[cat_id] = name
SetName(names, id, name) ==
  [x \in DOMAIN names \cup {id} |-> IF x = id THEN name ELSE names[x]]

\* The body of the getline loop for one line.  st holds parsingPoints, parts,
\* cats, names, tree; the result adds abort (an exception left LoadCategories).
LoadLine(st, line, g, u) ==
  LET np == SplitTrim(line, ",", LineLimit, g)
      f0 == Field(np, st.parts, 0, u)
      f1 == Field(np, st.parts, 1, u)
      f2 == Field(np, st.parts, 2, u)
      keep == [abort |-> FALSE, parsingPoints |-> st.parsingPoints, parts |-> st.parts,
               cats |-> st.cats, names |-> st.names, tree |-> st.tree]
      split == [keep EXCEPT !.parts = Overlay(np, st.parts)]
  IN IF ~st.parsingPoints
     THEN IF Len(line) = 0 THEN [keep EXCEPT !.parsingPoints = TRUE]
          ELSE LET id == StoI(f0)
               IN IF ~id.ok THEN [split EXCEPT !.abort = TRUE]
                  ELSE [split EXCEPT
                          !.names = SetName(st.names, ToU16(id.val), f1),
                          !.cats = PushQuery(st.cats, ToU16(id.val), ParseQuery(f2, g))]
     ELSE LET lon == StoD(f0)
              lat == StoD(f1)
              id == StoI(f2)
          IN IF ~lon.ok \/ ~lat.ok \/ ~id.ok THEN [split EXCEPT !.abort = TRUE]
             ELSE [split EXCEPT
                     !.tree = TreeInsert(st.tree, DoubleToFix(lon), DoubleToFix(lat),
                                         ToU16(id.val))]

\* Whether the loop body for this line makes a read with undefined behaviour:
\* s[SIZE_MAX] in SplitTrim, or parts[i] past the size of the vector.
LineHasUb(st, line, g, u) ==
  LET np == SplitTrim(line, ",", LineLimit, g)
  IN IF ~st.parsingPoints
     THEN /\ Len(line) > 0
          /\ \/ SplitTrimOob(line, ",", LineLimit)
             \/ Len(np) < 3
             \/ ParseQueryOob(Field(np, st.parts, 2, u), g)
     ELSE SplitTrimOob(line, ",", LineLimit) \/ Len(np) < 3

----------------------------------------------------------------------------
(* Entities of the geodata stream *)

MaxRing == 3

UndefinedCoordinate == 2147483647

UndefinedLocation == <<UndefinedCoordinate, UndefinedCoordinate>>

\* osmium::Location::operator bool
LocationValid(loc) == loc[1] # UndefinedCoordinate /\ loc[2] # UndefinedCoordinate

TypeKey == <<"t", "y", "p", "e">>
Multipolygon == <<"m", "u", "l", "t", "i", "p", "o", "l", "y", "g", "o", "n">>
Boundary == <<"b", "o", "u", "n", "d", "a", "r", "y">>

TagAB == [k |-> <<"a">>, v |-> <<"b">>]
TagAC == [k |-> <<"a">>, v |-> <<"c">>]
TagMP == [k |-> TypeKey, v |-> Multipolygon]
TagBD == [k |-> TypeKey, v |-> Boundary]

TagLists == {<<>>, <<TagAB>>, <<TagAC>>}

\* Node references of ways: ref and the location NodeLocationsForWays set
\* (left undefined for a node missing from the file, errors being ignored).
VA == [ref |-> 1, loc |-> <<-2000, 1000>>]
VB == [ref |-> 2, loc |-> <<2, -1001>>]
VU == [ref |-> 3, loc |-> UndefinedLocation]

Entity(kind, id, loc, nodes, members, tags) ==
  [kind |-> kind, id |-> id, loc |-> loc, nodes |-> nodes, members |-> members,
   tags |-> tags]

Nodes ==
  {Entity("node", 0, loc, <<>>, <<>>, tags) :
     loc \in {<<1000, -1000>>, <<1001, 0>>}, tags \in TagLists}

Ways ==
  {Entity("way", 0, <<0, 0>>, nodes, <<>>, tags) :
     nodes \in SeqsUpTo({VA, VB, VU}, MaxRing), tags \in {<<TagAC>>}}

\* Members of relations: ref (0 once the manager lost interest in the member)
\* and the nodes of the way get_member_way(ref) returns.
Member(ref, nodes) == [ref |-> ref, nodes |-> nodes]

Relations ==
  { Entity("relation", 1, <<0, 0>>, <<>>,
           <<Member(11, <<VB, VA, VB>>), Member(12, <<VU, VU>>)>>, <<TagMP, TagAB>>),
    Entity("relation", 2, <<0, 0>>, <<>>,
           <<Member(12, <<VU, VU>>)>>, <<TagMP, TagAB>>),
    Entity("relation", 3, <<0, 0>>, <<>>,
           <<Member(0, <<VA>>), Member(13, <<VB, VU, VA>>)>>, <<TagMP, TagAC>>),
    Entity("relation", 4, <<0, 0>>, <<>>,
           <<Member(11, <<VB, VA, VB>>)>>, <<TagBD, TagAB>>) }

----------------------------------------------------------------------------
(* The handlers: node, way, complete_relation / multi, new_relation *)

\* What a handler call did: whether it called IsEligible, with which centre,
\* whether it printed the object, and m_categories after it.
Outcome(tested, center, emitted, cats) ==
  [tested |-> tested, center |-> center, emitted |-> emitted, cats |-> cats]

\* if (IsEligible(center, tags)) print_object(obj, center);
Evaluate(cats, tree, center, tags) ==
  LET el == IsEligible(cats, tree, center, tags)
  IN Outcome(TRUE, center, el.result, el.cats)

\* AmenityHandler::node
HandleNode(cats, tree, n) == Evaluate(cats, tree, n.loc, n.tags)

\* A variant that counts every node reference, located or not.
RECURSIVE SumNodesCountAll(_, _, _)
SumNodesCountAll(nodes, i, acc) ==
  IF i > Len(nodes) THEN acc
  ELSE SumNodesCountAll(nodes, i + 1,
                        IF LocationValid(nodes[i].loc)
                        THEN [x |-> acc.x + nodes[i].loc[1], y |-> acc.y + nodes[i].loc[2],
                              cnt |-> acc.cnt + 1]
                        ELSE [acc EXCEPT !.cnt = acc.cnt + 1])

\* for (node_ref : nodes) if (node_ref.location()) { x += ..; y += ..; cnt++; }
RECURSIVE SumNodes(_, _, _)
SumNodes(nodes, i, acc) ==
  IF i > Len(nodes) THEN acc
  ELSE SumNodes(nodes, i + 1,
                IF LocationValid(nodes[i].loc)
                THEN [x |-> acc.x + nodes[i].loc[1], y |-> acc.y + nodes[i].loc[2],
                      cnt |-> acc.cnt + 1]
                ELSE acc)

\* osmium::Way::is_closed: the first and the last reference name the same
\* node.  On an empty list the library reads past the list; e is the answer.
IsClosed(nodes, e) ==
  IF Len(nodes) = 0 THEN e ELSE nodes[1].ref = nodes[Len(nodes)].ref

\* AmenityHandler::way
HandleWay(cats, tree, w, e) ==
  IF ~IsClosed(w.nodes, e) THEN Outcome(FALSE, <<0, 0>>, FALSE, cats)
  ELSE LET acc == SumNodes(w.nodes, 1, [x |-> 0, y |-> 0, cnt |-> 0])
       IN IF acc.cnt = 0 THEN Outcome(FALSE, <<0, 0>>, FALSE, cats)
          ELSE Evaluate(cats, tree,
                        <<TruncDiv(acc.x, acc.cnt), TruncDiv(acc.y, acc.cnt)>>, w.tags)

\* for (member : rel.members()) if (member.ref() != 0) { way = get_member_way; ... }
RECURSIVE SumMembers(_, _, _)
SumMembers(members, i, acc) ==
  IF i > Len(members) THEN acc
  ELSE SumMembers(members, i + 1,
                  IF members[i].ref # 0 THEN SumNodes(members[i].nodes, 1, acc) ELSE acc)

\* AmenityRelationsManager::complete_relation, with AmenityHandler::multi
CompleteRelation(cats, tree, rel) ==
  LET acc == SumMembers(rel.members, 1, [x |-> 0, y |-> 0, cnt |-> 0])
  IN IF acc.cnt > 0
     THEN Evaluate(cats, tree,
                   <<TruncDiv(acc.x, acc.cnt), TruncDiv(acc.y, acc.cnt)>>, rel.tags)
     ELSE Outcome(FALSE, <<0, 0>>, FALSE, cats)

\* TagList::get_value_by_key: the value of the first tag with the key, or null.
GetValueByKey(tags, key) ==
  LET hits == {i \in 1..Len(tags) : tags[i].k = key}
  IN IF hits = {} THEN [null |-> TRUE, v |-> <<>>]
     ELSE [null |-> FALSE, v |-> tags[MinOf(hits)].v]

\* AmenityRelationsManager::new_relation
NewRelation(rel) ==
  LET rel_type == GetValueByKey(rel.tags, TypeKey)
  IN ~rel_type.null /\ rel_type.v = Multipolygon

----------------------------------------------------------------------------
(* Lines of the category file *)

LineCafe == <<"1", ",", "c", ",", "a", "=", "b">>
LineBare == <<"2", ",", "d", ",", "k">>
LineSpace == <<"1", ",", "c", ",", "a", " ", "=", "b">>
LineComma == <<"1", ",", "c", ",", "a", "=", "b", ",", "k">>
LineBadId == <<"x", ",", "c", ",", "k">>
LineShort == <<"1", ",", "c">>
LineBlank == <<>>
PointCafe == <<"0", ",", "0", ",", "1">>
PointOrphan == <<"0", ",", "0", ",", "7">>
PointBare == <<"0", ".", "0", "0", "0", "1", ",", "0", ",", "2">>

\* The lines the loader is run on.
Lines ==
  {LineCafe, LineBare, LineSpace, LineComma, LineBadId, LineShort, LineBlank,
   PointCafe, PointOrphan, PointBare}

\* The lines of the files the whole run reads.
PipeLines == {LineCafe, LineShort, LineBlank, PointCafe, PointOrphan}

----------------------------------------------------------------------------
(* main(): the catalog load, pass 1 (read_relations), pass 2 (apply) *)

NoEntity == Entity("none", 0, <<0, 0>>, <<>>, <<>>, <<>>)

NoLast ==
  [op |-> "none", ent |-> NoEntity, tested |-> FALSE, center |-> <<0, 0>>,
   emitted |-> FALSE]

Last(op, ent, o) ==
  [op |-> op, ent |-> ent, tested |-> o.tested, center |-> o.center,
   emitted |-> o.emitted]

LoadState ==
  [parsingPoints |-> parsingPoints, parts |-> parts, cats |-> m_categories,
   names |-> m_category_names, tree |-> m_tree]

\* What the well-formed category line declares, added to the history.
Declare(decl, line) ==
  LET f == RefSplit(line, ",", 3)
  IN PushQuery(decl, ToU16(StoI(f[1]).val), RefClauseSet(f[3]))

\* std::getline gave `line`; the loop body runs on it.  An exception of
\* std::stoi / std::stod is not caught anywhere: the process terminates.
ReadLine(line) ==
  /\ pc = "Idle"
  /\ nLines < MaxLines
  /\ \E g \in OobReads, u \in UbReads :
       LET r == LoadLine(LoadState, line, g, u)
       IN /\ pc' = IF r.abort THEN "Aborted" ELSE "Idle"
          /\ parsingPoints' = r.parsingPoints
          /\ parts' = r.parts
          /\ m_categories' = r.cats
          /\ m_category_names' = r.names
          /\ m_tree' = r.tree
  /\ nLines' = nLines + 1
  /\ malformed' = (malformed \/ MalformedLine(line, parsingPoints))
  /\ declared' = IF ~parsingPoints /\ Len(line) > 0 /\ ~MalformedLine(line, FALSE)
                 THEN Declare(declared, line)
                 ELSE declared
  /\ UNCHANGED <<managed, last>>
  /\ UNCHANGED <<splitVars, tagVars>>

\* The same step when the undefined read faults instead of yielding a value.
ReadLineFault(line) ==
  /\ pc = "Idle"
  /\ nLines < MaxLines
  /\ \E g \in OobReads, u \in UbReads : LineHasUb(LoadState, line, g, u)
  /\ pc' = "Aborted"
  /\ nLines' = nLines + 1
  /\ malformed' = (malformed \/ MalformedLine(line, parsingPoints))
  /\ UNCHANGED <<parsingPoints, parts, m_categories, m_category_names, m_tree,
                 managed, declared, last>>
  /\ UNCHANGED <<splitVars, tagVars>>

\* A variant of the step below in which main goes straight to apply.
EndOfFileSkipsPass1 ==
  /\ pc = "Idle"
  /\ pc' = "Scanning"
  /\ parsingPoints' = FALSE
  /\ parts' = <<>>
  /\ nLines' = 0
  /\ UNCHANGED <<m_categories, m_category_names, m_tree, managed, malformed,
                 declared, last>>
  /\ UNCHANGED <<splitVars, tagVars>>

\* std::getline fails: LoadCategories returns, which ends the life of its
\* locals (the flag, the vector, the count of lines), then the constructor
\* returns and read_relations starts pass 1.
EndOfFile ==
  /\ pc = "Idle"
  /\ pc' = "AssemblingAreas"
  /\ parsingPoints' = FALSE
  /\ parts' = <<>>
  /\ nLines' = 0
  /\ UNCHANGED <<m_categories, m_category_names, m_tree, managed, malformed,
                 declared, last>>
  /\ UNCHANGED <<splitVars, tagVars>>

\* Pass 1 hands a relation to the manager, which keeps it if new_relation says so.
Pass1Relation(rel) ==
  /\ pc = "AssemblingAreas"
  /\ managed' = IF NewRelation(rel) THEN managed \cup {rel.id} ELSE managed
  /\ UNCHANGED <<pc, parsingPoints, parts, m_categories, m_category_names, m_tree,
                 nLines, malformed, declared, last>>
  /\ UNCHANGED <<splitVars, tagVars>>

\* read_relations returns at the end of the stream; apply starts pass 2.
EndPass1 ==
  /\ pc = "AssemblingAreas"
  /\ pc' = "Scanning"
  /\ UNCHANGED <<parsingPoints, parts, m_categories, m_category_names, m_tree,
                 nLines, managed, malformed, declared, last>>
  /\ UNCHANGED <<splitVars, tagVars>>

Pass2Node(n) ==
  /\ pc = "Scanning"
  /\ last.op = "none"
  /\ LET o == HandleNode(m_categories, m_tree, n)
     IN m_categories' = o.cats /\ last' = Last("node", n, o)
  /\ UNCHANGED <<pc, parsingPoints, parts, m_category_names, m_tree, nLines,
                 managed, malformed, declared>>
  /\ UNCHANGED <<splitVars, tagVars>>

Pass2Way(w) ==
  /\ pc = "Scanning"
  /\ last.op = "none"
  /\ \E e \in BOOLEAN :
       LET o == HandleWay(m_categories, m_tree, w, e)
       IN m_categories' = o.cats /\ last' = Last("way", w, o)
  /\ UNCHANGED <<pc, parsingPoints, parts, m_category_names, m_tree, nLines,
                 managed, malformed, declared>>
  /\ UNCHANGED <<splitVars, tagVars>>

\* The last member way of a kept relation arrived: the manager calls
\* complete_relation and forgets the relation.
Pass2Complete(rel) ==
  /\ pc = "Scanning"
  /\ last.op = "none"
  /\ rel.id \in managed
  /\ LET o == CompleteRelation(m_categories, m_tree, rel)
     IN m_categories' = o.cats /\ last' = Last("multi", rel, o)
  /\ managed' = managed \ {rel.id}
  /\ UNCHANGED <<pc, parsingPoints, parts, m_category_names, m_tree, nLines,
                 malformed, declared>>
  /\ UNCHANGED <<splitVars, tagVars>>

\* apply is through with the entity and takes the next one from the reader.
Pass2Next ==
  /\ pc = "Scanning"
  /\ last.op # "none"
  /\ last' = NoLast
  /\ UNCHANGED <<pc, parsingPoints, parts, m_categories, m_category_names, m_tree,
                 nLines, managed, malformed, declared>>
  /\ UNCHANGED <<splitVars, tagVars>>

\* apply returns at the end of the stream; main flushes and closes.
EndPass2 ==
  /\ pc = "Scanning"
  /\ pc' = "Done"
  /\ UNCHANGED <<parsingPoints, parts, m_categories, m_category_names, m_tree,
                 nLines, managed, malformed, declared, last>>
  /\ UNCHANGED <<splitVars, tagVars>>

InitPipe ==
  /\ pc = "Idle"
  /\ parsingPoints = FALSE
  /\ parts = <<>>
  /\ m_categories = <<>>
  /\ m_category_names = <<>>
  /\ m_tree = <<>>
  /\ nLines = 0
  /\ managed = {}
  /\ malformed = FALSE
  /\ declared = <<>>
  /\ last = NoLast

SplitOff ==
  /\ sp_s = <<>> /\ sp_delimiter = "," /\ sp_limit = 0 /\ sp_target = <<>>
  /\ sp_pc = "off"

TagsOff ==
  /\ tt_tags = <<>> /\ tt_query = <<>> /\ tt_result = FALSE /\ tt_pc = "off"

Init == InitPipe /\ SplitOff /\ TagsOff

Next ==
  \/ \E line \in PipeLines : ReadLine(line)
  \/ \E line \in PipeLines : ReadLineFault(line)
  \/ EndOfFile
  \/ \E rel \in Relations : Pass1Relation(rel)
  \/ EndPass1
  \/ \E n \in Nodes : Pass2Node(n)
  \/ \E w \in Ways : Pass2Way(w)
  \/ \E rel \in Relations : Pass2Complete(rel)
  \/ Pass2Next
  \/ EndPass2

Spec == Init /\ [][Next]_vars

\* The catalog load alone, on more lines.
NextLoad ==
  \/ \E line \in Lines : ReadLine(line)
  \/ \E line \in Lines : ReadLineFault(line)
  \/ EndOfFile

SpecLoad == Init /\ [][NextLoad]_vars

----------------------------------------------------------------------------
(* One call of SplitTrim on every short string *)

SplitAlphabet == {"a", " ", ","}

CallSplitTrim ==
  /\ sp_pc = "call"
  /\ \E g \in OobReads : sp_target' = SplitTrim(sp_s, sp_delimiter, sp_limit, g)
  /\ sp_pc' = "done"
  /\ UNCHANGED <<sp_s, sp_delimiter, sp_limit>>
  /\ UNCHANGED <<pipeVars, tagVars>>

\* The call when the read of s[SIZE_MAX] faults.
CallSplitTrimFault ==
  /\ sp_pc = "call"
  /\ SplitTrimOob(sp_s, sp_delimiter, sp_limit)
  /\ sp_pc' = "fault"
  /\ UNCHANGED <<sp_s, sp_delimiter, sp_limit, sp_target>>
  /\ UNCHANGED <<pipeVars, tagVars>>

InitSplit ==
  /\ InitPipe /\ TagsOff
  /\ sp_s \in SeqsUpTo(SplitAlphabet, MaxLen)
  /\ sp_delimiter = ","
  /\ sp_limit \in 1..MaxLimit
  /\ sp_target = <<>>
  /\ sp_pc = "call"

NextSplit == CallSplitTrim \/ CallSplitTrimFault

SpecSplit == InitSplit /\ [][NextSplit]_vars

----------------------------------------------------------------------------
(* One call of TestTags on every small tag list and query *)

MaxTags == 2
MaxConditions == 2

HarnessTags ==
  {[k |-> k, v |-> v] : k \in {<<"a">>, <<"k">>}, v \in {<<"b">>, <<"c">>}}

HarnessConditions ==
  {<<k>> : k \in {<<"a">>, <<"k">>}}
  \cup {<<k, v>> : k \in {<<"a">>, <<"k">>}, v \in {<<"b">>, <<"c">>}}

CallTestTags ==
  /\ tt_pc = "call"
  /\ tt_result' = TestTags(tt_tags, tt_query)
  /\ tt_pc' = "done"
  /\ UNCHANGED <<tt_tags, tt_query>>
  /\ UNCHANGED <<pipeVars, splitVars>>

InitTags ==
  /\ InitPipe /\ SplitOff
  /\ tt_tags \in SeqsUpTo(HarnessTags, MaxTags)
  /\ tt_query \in SeqsUpTo(HarnessConditions, MaxConditions)
  /\ tt_result = FALSE
  /\ tt_pc = "call"

NextTags == CallTestTags

SpecTags == InitTags /\ [][NextTags]_vars

----------------------------------------------------------------------------
(* What the properties below are stated with *)

\* The tag test of the specification: every condition names a key the tag
\* list holds, bare or with exactly the tag's value.
Matches(tags, query) ==
  \A i \in 1..Len(query) :
    \E j \in 1..Len(tags) :
      /\ tags[j].k = query[i][1]
      /\ (Len(query[i]) = 1 \/ tags[j].v = query[i][2])

\* The category ids of the reference points inside the box center +- Radius.
NearCategories(center) ==
  {m_tree[i].cat : i \in {j \in 1..Len(m_tree) :
      /\ m_tree[j].x >= center[1] - Radius /\ m_tree[j].x <= center[1] + Radius
      /\ m_tree[j].y >= center[2] - Radius /\ m_tree[j].y <= center[2] + Radius}}

RECURSIVE SeqSum(_)
SeqSum(xs) == IF Len(xs) = 0 THEN 0 ELSE xs[1] + SeqSum(Tail(xs))

\* The mean of the integers xs truncated toward zero, computed from the
\* quotients and remainders of the terms.
MeanTrunc(xs) ==
  LET n == Len(xs)
      q == SeqSum([i \in 1..n |-> xs[i] \div n])
      r == SeqSum([i \in 1..n |-> xs[i] % n])
      f == q + (r \div n)
  IN IF f < 0 /\ (r % n) # 0 THEN f + 1 ELSE f

MeanPoint(vs) ==
  <<MeanTrunc([i \in 1..Len(vs) |-> vs[i].loc[1]]),
    MeanTrunc([i \in 1..Len(vs) |-> vs[i].loc[2]])>>

KnownVertices(nodes) == SelectSeq(nodes, LAMBDA v : LocationValid(v.loc))

\* The vertices of known location of all member paths, in order.
RECURSIVE MemberVertices(_)
MemberVertices(members) ==
  IF Len(members) = 0 THEN <<>>
  ELSE (IF members[1].ref # 0 THEN KnownVertices(members[1].nodes) ELSE <<>>)
       \o MemberVertices(Tail(members))

RingClosed(nodes) == Len(nodes) > 0 /\ nodes[1].ref = nodes[Len(nodes)].ref

CountOf(s, c) == Cardinality({i \in 1..Len(s) : s[i] = c})

\* What follows the n-th occurrence of c in s.
RECURSIVE AfterNth(_, _, _)
AfterNth(s, c, n) ==
  IF n = 0 THEN s
  ELSE AfterNth(SubSeq(s, Find(s, c, 0) + 2, Len(s)), c, n - 1)

----------------------------------------------------------------------------
(* The properties *)

\* C1: with a catalog loaded from well-formed lines, an entity is emitted if
\* and only if the search of the box around its centroid returns a category
\* one of whose ClauseSets its tags satisfy.
C1_EmittedIffNearAndMatching ==
  (last.op # "none" /\ ~malformed) =>
    (last.emitted <=>
       /\ last.tested
       /\ \E c \in NearCategories(last.center) \cap DOMAIN m_categories :
            \E k \in 1..Len(m_categories[c]) : Matches(last.ent.tags, m_categories[c][k]))

\* C2: for a ClauseSet with at least one condition, TestTags answers true
\* exactly when every condition holds of the tag list.
C2_TestTagsIsConjunction ==
  (tt_pc = "done" /\ Len(tt_query) >= 1) => (tt_result <=> Matches(tt_tags, tt_query))

\* C3: after the load of a well-formed file, each category id holds exactly
\* the ClauseSets its lines declare, one per line, in the order of the lines.
C3_CatalogHoldsDeclaredQueries ==
  (pc = "AssemblingAreas" /\ ~malformed) => m_categories = declared

\* C4: once a malformed line has been read, no entity is evaluated for
\* eligibility and nothing is emitted.
C4_MalformedLineStopsTheRun ==
  malformed => last.op = "none"

\* C5: the run advances only along Idle -> AssemblingAreas -> Scanning ->
\* Done (or ends in the load); the reference points and names are set only
\* while Idle, relations are handed to the manager only in pass 1, and no
\* handler evaluates or emits an entity before pass 1 has ended.
C5_PassOrder ==
  [][ /\ pc' # pc =>
           <<pc, pc'>> \in {<<"Idle", "AssemblingAreas">>, <<"AssemblingAreas", "Scanning">>,
                            <<"Scanning", "Done">>, <<"Idle", "Aborted">>}
      /\ (m_tree' # m_tree \/ m_category_names' # m_category_names) => pc = "Idle"
      /\ ~(managed' \subseteq managed) => (pc = "AssemblingAreas" /\ pc' = pc)
      /\ last' # last => (pc = "Scanning" /\ pc' = pc)
      /\ pc' \in {"Idle", "AssemblingAreas", "Aborted"} => last' = NoLast
    ]_vars

C5_Witness == pc = "Done" /\ last.op = "multi" /\ last.emitted

C7_MultiAreaCentroid ==
  last.op = "multi" =>
    LET known == MemberVertices(last.ent.members)
    IN IF Len(known) >= 1
       THEN last.tested /\ last.center = MeanPoint(known)
       ELSE /\ ~last.tested /\ ~last.emitted
            /\ pc \in {"Scanning", "Done"}
            /\ pc = "Scanning" => ENABLED Pass2Next

C7_Witness == last.op = "multi" /\ ~last.tested /\ last.ent.id = 2 /\ pc = "Scanning"

\* C8: SplitTrim gives at most `limit` tokens, and with `limit` or more
\* delimiters in s the last token is the untouched remainder of s (stated
\* for the calls that read inside the string).
C8_AtMostLimitTokens ==
  (sp_pc = "done" /\ ~SplitTrimOob(sp_s, sp_delimiter, sp_limit)) =>
    /\ Len(sp_target) <= sp_limit
    /\ CountOf(sp_s, sp_delimiter) >= sp_limit =>
         /\ Len(sp_target) = sp_limit
         /\ sp_target[sp_limit] = RefTrim(AfterNth(sp_s, sp_delimiter, sp_limit - 1))

\* C9: every token below the limit is trimmed on both sides and holds no
\* delimiter, and the scan for trailing whitespace reads inside the string.
C9_TokensAreTrimmed ==
  /\ sp_pc # "fault"
  /\ sp_pc = "done" =>
       /\ ~SplitTrimOob(sp_s, sp_delimiter, sp_limit)
       /\ \A i \in 1..Len(sp_target) :
            i < sp_limit =>
              /\ sp_target[i] = RefTrim(sp_target[i])
              /\ CountOf(sp_target[i], sp_delimiter) = 0

\* C10: no step of pass 2 changes the catalog or the spatial index.
C10_EligibilityLeavesCatalogAlone ==
  [][pc = "Scanning" =>
       /\ DOMAIN m_categories' = DOMAIN m_categories
       /\ m_categories' = m_categories
       /\ m_tree' = m_tree]_vars

====
